---------------------------- MODULE Spec2Model ----------------------------
(***************************************************************************)
(* A model of embed_scripts.py: the tool that collects the *.py files of   *)
(* a directory, reads two magic comments out of each, base64-encodes each  *)
(* file and splices a data declaration, a loader routine and a loader call *)
(* into BrowserBox.html by two regular-expression substitutions.           *)
(*                                                                         *)
(* Text is a sequence of tokens.  A token is a piece of literal text (one  *)
(* character, or a fixed word such as "user_files"); the text a sequence   *)
(* stands for is the concatenation of its tokens.  The tokens are chosen   *)
(* so that the regular expressions of the source never match across a      *)
(* token boundary in any other way than token by token.                    *)
(***************************************************************************)
EXTENDS Integers, Sequences, FiniteSets, TLC

VARIABLES
    pc,               \* position of the run
    script_content,   \* parse_required_files: its argument
    user_files,       \* parse_required_files: first result
    process_files,    \* parse_required_files: second result
    content,          \* the text of the file being encoded
    content_b64,      \* its base64 text, as stored in the record
    decoded,          \* what the embedded loader's atob() makes of it
    directory,        \* the entries of the working directory, in enumeration order
    idx,              \* number of directory entries the collection loop has passed
    scripts,          \* the records collected so far
    opened,           \* the open() calls so far: <<file name, mode>>
    target,           \* BrowserBox.html: NoFile or <<its text>>
    output,           \* BrowserBox_with_scripts.html: NoFile or <<its text>>
    result,           \* what create_embedded_browserbox returned / main reported
    embeddedScripts,  \* the record list the loader consumes
    pythonScripts,    \* the host document's active script list
    k                 \* number of records the loader's forEach has passed

vars == <<pc, script_content, user_files, process_files, content, content_b64,
          decoded, directory, idx, scripts, opened, target, output, result,
          embeddedScripts, pythonScripts, k>>

\* The variables of each part of the tool.
parseVars == <<script_content, user_files, process_files>>
codecVars == <<content, content_b64, decoded>>
mainVars == <<directory, idx, scripts, opened, target, output, result>>
loaderVars == <<embeddedScripts, pythonScripts, k>>

\* A file that does not exist; a file that exists is the 1-tuple of its text.
NoFile == <<>>
\* re.search found nothing; a match is the 1-tuple of its group 1.
None == <<>>

-----------------------------------------------------------------------------
(* Generic helpers on sequences.                                           *)

RECURSIVE Flatten(_)
Flatten(ss) == IF ss = <<>> THEN <<>> ELSE Head(ss) \o Flatten(Tail(ss))

\* All sequences of at most n elements of S.
RECURSIVE SeqsUpTo(_, _)
SeqsUpTo(S, n) ==
    IF n = 0 THEN {<<>>}
    ELSE LET shorter == SeqsUpTo(S, n - 1)
         IN  shorter \cup {Append(s, x) : s \in {t \in shorter : Len(t) = n - 1}, x \in S}

-----------------------------------------------------------------------------
(* The encoder (line 48) and the decoding the embedded loader applies      *)
(* (line 88).                                                              *)

\* The code points of each token a file text is made of.
CodePoints(tok) ==
    CASE tok = "a"             -> <<97>>
      [] tok = "b"             -> <<98>>
      [] tok = "c"             -> <<99>>
      [] tok = "#"             -> <<35>>
      [] tok = " "             -> <<32>>
      [] tok = "\t"            -> <<9>>
      [] tok = "\n"            -> <<10>>
      [] tok = ":"             -> <<58>>
      [] tok = ","             -> <<44>>
      [] tok = "user_files"    -> <<117, 115, 101, 114, 95, 102, 105, 108, 101, 115>>
      [] tok = "USER_FILES"    -> <<85, 83, 69, 82, 95, 70, 73, 76, 69, 83>>
      [] tok = "User_Files"    -> <<85, 115, 101, 114, 95, 70, 105, 108, 101, 115>>
      [] tok = "process_files" -> <<112, 114, 111, 99, 101, 115, 115, 95, 102, 105, 108, 101, 115>>
      [] tok = "Process_Files" -> <<80, 114, 111, 99, 101, 115, 115, 95, 70, 105, 108, 101, 115>>
      [] tok = "embed_scripts" -> <<101, 109, 98, 101, 100, 95, 115, 99, 114, 105, 112, 116, 115>>
      [] tok = ".py"           -> <<46, 112, 121>>
      [] tok = ".pyc"          -> <<46, 112, 121, 99>>
      [] tok = "function init() {" ->
            <<102, 117, 110, 99, 116, 105, 111, 110, 32, 105, 110, 105, 116, 40, 41, 32, 123>>
      [] tok = "log('App initialized and ready');" ->
            <<108, 111, 103, 40, 39, 65, 112, 112, 32, 105, 110, 105, 116, 105, 97, 108, 105,
              122, 101, 100, 32, 97, 110, 100, 32, 114, 101, 97, 100, 121, 39, 41, 59>>
      [] tok = "U+007F"        -> <<127>>
      [] tok = "U+00E9"        -> <<233>>
      [] tok = "U+20AC"        -> <<8364>>
      [] tok = "U+1F600"       -> <<128512>>

\* The text as the sequence of its code points.
Chars(text) == Flatten([i \in 1..Len(text) |-> CodePoints(text[i])])

\* str.encode('utf-8') of one code point.
Utf8One(cp) ==
    IF cp < 128 THEN <<cp>>
    ELSE IF cp < 2048 THEN <<192 + (cp \div 64), 128 + (cp % 64)>>
    ELSE IF cp < 65536 THEN
        <<224 + (cp \div 4096), 128 + ((cp \div 64) % 64), 128 + (cp % 64)>>
    ELSE <<240 + (cp \div 262144), 128 + ((cp \div 4096) % 64),
           128 + ((cp \div 64) % 64), 128 + (cp % 64)>>

\* content.encode('utf-8'): the bytes of a sequence of code points.
Utf8Encode(cps) == Flatten([i \in 1..Len(cps) |-> Utf8One(cps[i])])

B64Alphabet ==
    <<"A", "B", "C", "D", "E", "F", "G", "H", "I", "J", "K", "L", "M", "N", "O", "P",
      "Q", "R", "S", "T", "U", "V", "W", "X", "Y", "Z", "a", "b", "c", "d", "e", "f",
      "g", "h", "i", "j", "k", "l", "m", "n", "o", "p", "q", "r", "s", "t", "u", "v",
      "w", "x", "y", "z", "0", "1", "2", "3", "4", "5", "6", "7", "8", "9", "+", "/">>

B64Char(n) == B64Alphabet[n + 1]
B64Index(c) == (CHOOSE i \in 1..64 : B64Alphabet[i] = c) - 1

\* base64.b64encode(bytes).decode('ascii'): three bytes to four characters, the
\* last group padded with "=".
RECURSIVE b64encode(_)
b64encode(bytes) ==
    IF bytes = <<>> THEN <<>>
    ELSE IF Len(bytes) = 1 THEN
        <<B64Char(bytes[1] \div 4), B64Char((bytes[1] % 4) * 16), "=", "=">>
    ELSE IF Len(bytes) = 2 THEN
        <<B64Char(bytes[1] \div 4),
          B64Char((bytes[1] % 4) * 16 + (bytes[2] \div 16)),
          B64Char((bytes[2] % 16) * 4), "=">>
    ELSE
        <<B64Char(bytes[1] \div 4),
          B64Char((bytes[1] % 4) * 16 + (bytes[2] \div 16)),
          B64Char((bytes[2] % 16) * 4 + (bytes[3] \div 64)),
          B64Char(bytes[3] % 64)>> \o b64encode(SubSeq(bytes, 4, Len(bytes)))

\* Line 48: the record's content_b64 for a file text.
EncodeContent(text) == b64encode(Utf8Encode(Chars(text)))

\* atob() first removes the ASCII whitespace of its argument.
IsAsciiWhitespace(c) == c \in {" ", "\t", "\n", "\f", "\r"}

RECURSIVE StripWhitespace(_)
StripWhitespace(b64) ==
    IF b64 = <<>> THEN <<>>
    ELSE IF IsAsciiWhitespace(Head(b64)) THEN StripWhitespace(Tail(b64))
    ELSE <<Head(b64)>> \o StripWhitespace(Tail(b64))

\* Then it drops one or two trailing "=" of a text whose length is a multiple
\* of four.
Unpadded(b64) ==
    IF Len(b64) > 0 /\ Len(b64) % 4 = 0 /\ b64[Len(b64)] = "=" THEN
        IF b64[Len(b64) - 1] = "=" THEN SubSeq(b64, 1, Len(b64) - 2)
        ELSE SubSeq(b64, 1, Len(b64) - 1)
    ELSE b64

\* Line 88 inside the try of line 86: atob() throws InvalidCharacterError on a
\* text that, whitespace and padding dropped, has a length of 1 modulo 4 or
\* holds a character outside the base64 alphabet.
AtobThrows(b64) ==
    LET u == Unpadded(StripWhitespace(b64))
    IN  \/ Len(u) % 4 = 1
        \/ \E i \in 1..Len(u) : \A v \in 0..63 : B64Char(v) # u[i]

\* Four characters give three bytes; a last group of two characters gives one
\* byte and one of three gives two, the bits left over being discarded.
RECURSIVE DecodeGroups(_)
DecodeGroups(u) ==
    IF Len(u) < 2 THEN <<>>
    ELSE LET c1 == B64Index(u[1])
             c2 == B64Index(u[2])
         IN  IF Len(u) = 2 THEN <<c1 * 4 + (c2 \div 16)>>
             ELSE LET c3 == B64Index(u[3])
                  IN  IF Len(u) = 3 THEN
                          <<c1 * 4 + (c2 \div 16), (c2 % 16) * 16 + (c3 \div 4)>>
                      ELSE <<c1 * 4 + (c2 \div 16), (c2 % 16) * 16 + (c3 \div 4),
                             (c3 % 4) * 64 + B64Index(u[4])>>
                           \o DecodeGroups(SubSeq(u, 5, Len(u)))

\* The browser's atob() on a text it does not throw on: each BYTE decoded
\* becomes one character of the result (a "binary string"); no UTF-8 decoding
\* is applied.
atob(b64) == DecodeGroups(Unpadded(StripWhitespace(b64)))

-----------------------------------------------------------------------------
(* parse_required_files (lines 12-30).                                     *)

\* Runs of spaces that the templates of the patcher and json.dumps(indent=8) emit.
SP8 == "        "
SP12 == "            "
SP16 == "                "
SP24 == "                        "

\* \s of the regular expressions, and the characters str.strip() removes.
IsSpace(tok) == tok \in {" ", "\t", "\n", SP8, SP12, SP16, SP24}

\* Lower without re.IGNORECASE: a case-sensitive comparison.
LowerCaseSensitive(tok) == tok

\* re.IGNORECASE: the marker word is compared with its letters' case folded.
Lower(tok) ==
    CASE tok \in {"user_files", "USER_FILES", "User_Files"} -> "user_files"
      [] tok \in {"process_files", "Process_Files"} -> "process_files"
      [] OTHER -> tok

\* The greedy \s* starting at position i (i <= Len + 1): the first position at or
\* after i that does not hold a whitespace character (a newline is whitespace).
SkipSpace(text, i) ==
    CHOOSE j \in i..(Len(text) + 1) :
        /\ j = Len(text) + 1 \/ ~IsSpace(text[j])
        /\ \A h \in i..(j - 1) : IsSpace(text[h])

\* The greedy .* starting at position i stops before the next newline.
LineEnd(text, i) ==
    CHOOSE j \in i..(Len(text) + 1) :
        /\ j = Len(text) + 1 \/ text[j] = "\n"
        /\ \A h \in i..(j - 1) : text[h] # "\n"

\* An attempt of  #\s*<word>:\s*(.*)  at position i (lines 16-17): None when it
\* fails, and the 1-tuple of the text of group 1 when it succeeds.
MatchMarkerAt(text, i, word) ==
    IF i > Len(text) \/ text[i] # "#" THEN None
    ELSE LET j == SkipSpace(text, i + 1)
         IN  IF j + 1 > Len(text) \/ Lower(text[j]) # word \/ text[j + 1] # ":"
             THEN None
             ELSE LET m == SkipSpace(text, j + 2)
                  IN  <<SubSeq(text, m, LineEnd(text, m) - 1)>>

\* re.search (lines 19-20): the leftmost position where the attempt succeeds.
Search(text, word) ==
    LET starts == {p \in 1..Len(text) : MatchMarkerAt(text, p, word) # None}
    IN  IF starts = {} THEN None
        ELSE MatchMarkerAt(text, CHOOSE q \in starts : \A r \in starts : q <= r, word)

\* str.split(','): the pieces between the commas, empty pieces included.
RECURSIVE SplitComma(_)
SplitComma(s) ==
    IF \A i \in 1..Len(s) : s[i] # "," THEN <<s>>
    ELSE LET c == CHOOSE i \in 1..Len(s) : s[i] = "," /\ \A h \in 1..(i - 1) : s[h] # ","
         IN  <<SubSeq(s, 1, c - 1)>> \o SplitComma(SubSeq(s, c + 1, Len(s)))

\* str.strip(): leading and trailing whitespace removed.
RECURSIVE Strip(_)
Strip(s) ==
    IF s = <<>> THEN s
    ELSE IF IsSpace(s[1]) THEN Strip(Tail(s))
    ELSE IF IsSpace(s[Len(s)]) THEN Strip(SubSeq(s, 1, Len(s) - 1))
    ELSE s

\* [f.strip() for f in group.split(',') if f.strip()]  (lines 24, 28)
RECURSIVE StripNonEmpty(_)
StripNonEmpty(parts) ==
    IF parts = <<>> THEN <<>>
    ELSE IF Strip(Head(parts)) = <<>> THEN StripNonEmpty(Tail(parts))
    ELSE <<Strip(Head(parts))>> \o StripNonEmpty(Tail(parts))

\* Lines 22-24 and 26-28: the list of one marker.
FilesOf(text, word) ==
    LET match == Search(text, word)
    IN  IF match # None /\ match[1] # <<>>
        THEN StripNonEmpty(SplitComma(match[1]))
        ELSE <<>>

\* parse_required_files(script_content): the pair it returns.
parse_required_files(text) == <<FilesOf(text, "user_files"), FilesOf(text, "process_files")>>

-----------------------------------------------------------------------------
(* create_embedded_browserbox (lines 65-159).                              *)

\* The literal texts the two patterns look for (lines 128 and 137).
FUNC == "function init() {"
LOG == "log('App initialized and ready');"
START == "        // Start the app"
INITCALL == "init();"
CLOSE == "    </script>"

\* The literal texts the patcher inserts.
EMBHDR == "        // Embedded Python Scripts Data"
DECLHEAD == "const embeddedScripts = "
\* Lines 77-125, the text of decoder_function after its leading newline.
LOADER == "        // Function to decode base64 embedded scripts ... function loadEmbeddedScripts() { ... }"
CALL == "loadEmbeddedScripts();"

\* json.dumps escapes (ensure_ascii): control characters and non-ASCII characters.
JsonEscape(tok) ==
    CASE tok = "\t"      -> "\\t"
      [] tok = "\n"      -> "\\n"
      [] tok = "U+007F"  -> "\\u007f"
      [] tok = "U+00E9"  -> "\\u00e9"
      [] tok = "U+20AC"  -> "\\u20ac"
      [] tok = "U+1F600" -> "\\ud83d\\ude00"
      [] OTHER -> tok

JsonString(str) == <<"\"">> \o [i \in 1..Len(str) |-> JsonEscape(str[i])] \o <<"\"">>

\* items joined by sep
RECURSIVE Join(_, _)
Join(items, sep) ==
    IF items = <<>> THEN <<>>
    ELSE IF Len(items) = 1 THEN items[1]
    ELSE items[1] \o sep \o Join(Tail(items), sep)

\* A list of strings as json.dumps(indent=8) writes it two levels deep.
JsonStringList(strs) ==
    IF strs = <<>> THEN <<"[]">>
    ELSE <<"[", "\n">>
         \o Join([i \in 1..Len(strs) |-> <<SP24>> \o JsonString(strs[i])], <<",", "\n">>)
         \o <<"\n", SP16, "]">>

\* One record (lines 50-55), its keys in insertion order.
JsonRecord(r) ==
    <<SP8, "{", "\n">>
    \o <<SP16, "\"name\": ">> \o JsonString(r.name) \o <<",", "\n">>
    \o <<SP16, "\"content_b64\": ">> \o JsonString(r.content_b64) \o <<",", "\n">>
    \o <<SP16, "\"userFiles\": ">> \o JsonStringList(r.userFiles) \o <<",", "\n">>
    \o <<SP16, "\"processFiles\": ">> \o JsonStringList(r.processFiles)
    \o <<"\n", SP8, "}">>

\* json.dumps(scripts, indent=8)
JsonDumps(recs) ==
    IF recs = <<>> THEN <<"[]">>
    ELSE <<"[", "\n">>
         \o Join([i \in 1..Len(recs) |-> JsonRecord(recs[i])], <<",", "\n">>)
         \o <<"\n", "]">>

\* Line 73: scripts_js
scripts_js(recs) == <<DECLHEAD>> \o JsonDumps(recs) \o <<";">>

\* Lines 76-125: decoder_function, which starts with a newline.
decoder_function == <<"\n", LOADER>>

\* [^}] of the init pattern: the tokens whose text holds a closing brace.
HasCloseBrace(tok) == tok = "}" \/ tok = LOADER

\* insert_embedded_code without before_script_end.
insert_embedded_code_drop(recs, before_script_end, script_closing) ==
    <<EMBHDR, "\n", SP8>> \o scripts_js(recs) \o <<"\n", "\n">>
    \o decoder_function \o <<"\n", "\n", SP8>> \o script_closing

\* insert_embedded_code (lines 139-148): the replacement of one match of the
\* trailing pattern.
insert_embedded_code(recs, before_script_end, script_closing) ==
    <<EMBHDR, "\n", SP8>> \o scripts_js(recs) \o <<"\n", "\n">>
    \o decoder_function \o <<"\n", "\n", SP8>> \o before_script_end \o script_closing

\* replace_init (lines 130-133): the replacement of one match of the init pattern.
replace_init(before_log, log_line) == before_log \o <<CALL, "\n", SP12>> \o log_line

\* An attempt of the trailing pattern (line 137) at position i:
\*   (        // Start the app\s+init\(\);\s+)(    </script>)
\* 0 when it fails, and the position of the closing line when it succeeds.
ScriptEndAt(text, i) ==
    IF i > Len(text) \/ text[i] # START THEN 0
    ELSE LET j == SkipSpace(text, i + 1)
         IN  IF j = i + 1 \/ j > Len(text) \/ text[j] # INITCALL THEN 0
             ELSE LET m == SkipSpace(text, j + 1)
                  IN  IF m = j + 1 \/ m > Len(text) \/ text[m] # CLOSE THEN 0 ELSE m

\* re.sub(script_end_pattern, insert_embedded_code, ...) from position i on
\* (line 151): every match, left to right, without overlap.
RECURSIVE SubScriptEnd(_, _, _)
SubScriptEnd(text, i, recs) ==
    LET starts == {p \in i..Len(text) : ScriptEndAt(text, p) # 0}
    IN  IF starts = {} THEN SubSeq(text, i, Len(text))
        ELSE LET p == CHOOSE q \in starts : \A r \in starts : q <= r
                 m == ScriptEndAt(text, p)
             IN  SubSeq(text, i, p - 1)
                 \o insert_embedded_code(recs, SubSeq(text, p, m - 1), <<text[m]>>)
                 \o SubScriptEnd(text, m + 1, recs)

\* The first position after i that holds a closing brace, or Len + 1.
BraceStop(text, i) ==
    CHOOSE j \in i..(Len(text) + 1) :
        /\ j = Len(text) + 1 \/ HasCloseBrace(text[j])
        /\ \A h \in i..(j - 1) : ~HasCloseBrace(text[h])

\* An attempt of the init pattern (line 128) at position i:
\*   (function init\(\) {[^}]*)(log\('App initialized and ready'\);)
\* The greedy [^}]* runs to the first closing brace and gives back until the
\* log statement fits: 0 when there is none, else the position of the last log
\* statement before that brace.
InitAt(text, i) ==
    IF i > Len(text) \/ text[i] # FUNC THEN 0
    ELSE LET logs == {j \in (i + 1)..(BraceStop(text, i + 1) - 1) : text[j] = LOG}
         IN  IF logs = {} THEN 0 ELSE CHOOSE j \in logs : \A h \in logs : h <= j

\* re.sub(init_function_pattern, replace_init, html_content) from position i on
\* (line 152).
RECURSIVE SubInit(_, _)
SubInit(text, i) ==
    LET starts == {p \in i..Len(text) : InitAt(text, p) # 0}
    IN  IF starts = {} THEN SubSeq(text, i, Len(text))
        ELSE LET p == CHOOSE q \in starts : \A r \in starts : q <= r
                 j == InitAt(text, p)
             IN  SubSeq(text, i, p - 1)
                 \o replace_init(SubSeq(text, p, j - 1), <<text[j]>>)
                 \o SubInit(text, j + 1)

\* Lines 150-152: the text written for a document and a record list.
Patched(html_content, recs) == SubInit(SubScriptEnd(html_content, 1, recs), 1)

\* Lines 150-159 as one step: read the document, substitute, write the output
\* file, return its name.  open() raises when the document does not exist.
HTML == <<"BrowserBox", ".html">>
OUT == <<"BrowserBox_with_scripts", ".html">>

CreateEmbeddedBrowserbox ==
    /\ pc = "create"
    /\ target # NoFile
    /\ output' = <<Patched(target[1], scripts)>>
    /\ opened' = opened \o << <<HTML, "r">>, <<OUT, "w">> >>
    /\ result' = "success"
    /\ pc' = "done"
    /\ UNCHANGED <<directory, idx, scripts, target>>
    /\ UNCHANGED <<parseVars, codecVars, loaderVars>>

CreateFailsToOpen ==
    /\ pc = "create"
    /\ target = NoFile
    /\ opened' = Append(opened, <<HTML, "r">>)
    /\ result' = "FileNotFoundError"
    /\ pc' = "done"
    /\ UNCHANGED <<directory, idx, scripts, target, output>>
    /\ UNCHANGED <<parseVars, codecVars, loaderVars>>

-----------------------------------------------------------------------------
(* collect_python_scripts (lines 32-63) and main (lines 161-183).          *)

\* Path(directory).glob('*.py'): the entries whose name ends in ".py", in
\* enumeration order.
MatchesGlob(name) == name # <<>> /\ name[Len(name)] = ".py"
Glob(dir) == SelectSeq(dir, LAMBDA e : MatchesGlob(e.name))

\* The own-file test with the test left out.
IsOwnFileNever(name) == FALSE

\* Line 37: file_path.name == 'embed_scripts.py'
IsOwnFile(name) == name = <<"embed_scripts", ".py">>

\* Lines 45-55: the record of a file that was read.
ScriptInfo(name, text) ==
    [name |-> name,
     content_b64 |-> EncodeContent(text),
     userFiles |-> parse_required_files(text)[1],
     processFiles |-> parse_required_files(text)[2]]

\* "if not scripts" with the test left out.
NoScriptsNever(recs) == FALSE

\* Line 172: if not scripts
NoScripts(recs) == recs = <<>>

\* Lines 165-167: the target document is looked for before anything else.
MainCheckTarget ==
    /\ pc = "main"
    /\ IF target = NoFile
       THEN result' = "target not found" /\ pc' = "done"
       ELSE result' = result /\ pc' = "collect"
    /\ UNCHANGED <<directory, idx, scripts, opened, target, output>>
    /\ UNCHANGED <<parseVars, codecVars, loaderVars>>

\* Lines 36-38: the tool's own file is passed over.
CollectSkipSelf ==
    /\ pc = "collect"
    /\ idx < Len(Glob(directory))
    /\ IsOwnFile(Glob(directory)[idx + 1].name)
    /\ idx' = idx + 1
    /\ UNCHANGED <<pc, directory, scripts, opened, target, output, result>>
    /\ UNCHANGED <<parseVars, codecVars, loaderVars>>

\* Lines 40-58: a file that can be read gives one record.
CollectRead ==
    /\ pc = "collect"
    /\ idx < Len(Glob(directory))
    /\ LET e == Glob(directory)[idx + 1]
       IN  /\ ~IsOwnFile(e.name)
           /\ e.readable
           /\ scripts' = Append(scripts, ScriptInfo(e.name, e.text))
           /\ opened' = Append(opened, <<e.name, "r">>)
    /\ idx' = idx + 1
    /\ UNCHANGED <<pc, directory, target, output, result>>
    /\ UNCHANGED <<parseVars, codecVars, loaderVars>>

\* Lines 60-61: open() or read() raised; the error is printed and the loop goes on.
CollectError ==
    /\ pc = "collect"
    /\ idx < Len(Glob(directory))
    /\ LET e == Glob(directory)[idx + 1]
       IN  /\ ~IsOwnFile(e.name)
           /\ ~e.readable
           /\ opened' = Append(opened, <<e.name, "r">>)
    /\ idx' = idx + 1
    /\ UNCHANGED <<pc, directory, scripts, target, output, result>>
    /\ UNCHANGED <<parseVars, codecVars, loaderVars>>

\* Lines 172-174: nothing was collected.
MainNoScripts ==
    /\ pc = "collect"
    /\ idx = Len(Glob(directory))
    /\ NoScripts(scripts)
    /\ result' = "no scripts"
    /\ pc' = "done"
    /\ UNCHANGED <<directory, idx, scripts, opened, target, output>>
    /\ UNCHANGED <<parseVars, codecVars, loaderVars>>

\* Line 177: create_embedded_browserbox(scripts) is called.
MainCallCreate ==
    /\ pc = "collect"
    /\ idx = Len(Glob(directory))
    /\ ~NoScripts(scripts)
    /\ pc' = "create"
    /\ UNCHANGED <<directory, idx, scripts, opened, target, output, result>>
    /\ UNCHANGED <<parseVars, codecVars, loaderVars>>

-----------------------------------------------------------------------------
(* loadEmbeddedScripts, the routine the patcher embeds (lines 78-125).     *)

IsAlnum(c) == c \in 48..57 \/ c \in 65..90 \/ c \in 97..122

\* /[^a-zA-Z0-9]/g replaced by '-' (line 104): every UTF-16 unit of the name
\* that is not a letter or a digit becomes '-' (code 45); a character beyond
\* U+FFFF is two units.
Slug(c) == IF IsAlnum(c) THEN <<c>> ELSE IF c > 65535 THEN <<45, 45>> ELSE <<45>>

\* Line 104: the id of an entry, "py-" and the name so replaced, as characters.
ScriptId(name) ==
    <<112, 121, 45>> \o Flatten([i \in 1..Len(Chars(name)) |-> Slug(Chars(name)[i])])

\* The presence test with the test left out.
AlreadyPresentNever(list, name) == FALSE

\* Line 97: pythonScripts.some(ps => ps.name === scriptData.name)
AlreadyPresent(list, name) == \E i \in 1..Len(list) : list[i].name = name

\* Lines 98-105: the entry made of a record.  The file object wraps the same
\* decoded content under the same name.
NewScript(scriptData) ==
    [name |-> scriptData.name,
     content |-> atob(scriptData.content_b64),
     userFiles |-> scriptData.userFiles,
     processFiles |-> scriptData.processFiles,
     id |-> ScriptId(scriptData.name)]

\* a.localeCompare(b) < 0, for names of lower-case letters, digits and dots:
\* the order of the code points.
RECURSIVE LexLess(_, _)
LexLess(x, y) ==
    IF y = <<>> THEN FALSE
    ELSE IF x = <<>> THEN TRUE
    ELSE IF Head(x) # Head(y) THEN Head(x) < Head(y)
    ELSE LexLess(Tail(x), Tail(y))

NameLess(a, b) == LexLess(Chars(a.name), Chars(b.name))

\* Line 115: pythonScripts.sort(...), a stable sort by name.
RECURSIVE SortByName(_)
SortByName(list) ==
    IF Len(list) <= 1 THEN list
    ELSE LET front == SortByName(SubSeq(list, 1, Len(list) - 1))
             x == list[Len(list)]
             pos == Cardinality({i \in 1..Len(front) : ~NameLess(x, front[i])})
         IN  SubSeq(front, 1, pos) \o <<x>> \o SubSeq(front, pos + 1, Len(front))

\* Lines 79-81: nothing is embedded, the routine returns at once.
LoaderReturnEarly ==
    /\ pc = "load"
    /\ Len(embeddedScripts) = 0
    /\ pc' = "loaded"
    /\ UNCHANGED <<embeddedScripts, pythonScripts, k>>
    /\ UNCHANGED <<parseVars, codecVars, mainVars>>

\* Line 83: the count is logged and the forEach begins.
LoaderBegin ==
    /\ pc = "load"
    /\ Len(embeddedScripts) > 0
    /\ pc' = "forEach"
    /\ UNCHANGED <<embeddedScripts, pythonScripts, k>>
    /\ UNCHANGED <<parseVars, codecVars, mainVars>>

\* Lines 85-108, a record whose name is not registered: its entry is pushed.
ForEachAdd ==
    /\ pc = "forEach"
    /\ k < Len(embeddedScripts)
    /\ ~AtobThrows(embeddedScripts[k + 1].content_b64)
    /\ ~AlreadyPresent(pythonScripts, embeddedScripts[k + 1].name)
    /\ pythonScripts' = Append(pythonScripts, NewScript(embeddedScripts[k + 1]))
    /\ k' = k + 1
    /\ UNCHANGED <<pc, embeddedScripts>>
    /\ UNCHANGED <<parseVars, codecVars, mainVars>>

\* Lines 85-108, a record whose name is registered already: nothing is done.
ForEachSkip ==
    /\ pc = "forEach"
    /\ k < Len(embeddedScripts)
    /\ ~AtobThrows(embeddedScripts[k + 1].content_b64)
    /\ AlreadyPresent(pythonScripts, embeddedScripts[k + 1].name)
    /\ k' = k + 1
    /\ UNCHANGED <<pc, embeddedScripts, pythonScripts>>
    /\ UNCHANGED <<parseVars, codecVars, mainVars>>

\* Lines 86-88 and 109-111: atob() throws on the record's content, the catch
\* logs the error and the forEach goes on to the next record.
ForEachError ==
    /\ pc = "forEach"
    /\ k < Len(embeddedScripts)
    /\ AtobThrows(embeddedScripts[k + 1].content_b64)
    /\ k' = k + 1
    /\ UNCHANGED <<pc, embeddedScripts, pythonScripts>>
    /\ UNCHANGED <<parseVars, codecVars, mainVars>>

\* Lines 114-124: the list is sorted and the views are refreshed.
LoaderFinish ==
    /\ pc = "forEach"
    /\ k = Len(embeddedScripts)
    /\ pythonScripts' = SortByName(pythonScripts)
    /\ pc' = "loaded"
    /\ UNCHANGED <<embeddedScripts, k>>
    /\ UNCHANGED <<parseVars, codecVars, mainVars>>

-----------------------------------------------------------------------------
(* Values of the variables a specification does not use.                   *)

ParseIdle == script_content = <<>> /\ user_files = <<>> /\ process_files = <<>>
CodecIdle == content = <<>> /\ content_b64 = <<>> /\ decoded = <<>>
MainIdle ==
    /\ directory = <<>> /\ idx = 0 /\ scripts = <<>> /\ opened = <<>>
    /\ target = NoFile /\ output = NoFile /\ result = "running"
LoaderIdle == embeddedScripts = <<>> /\ pythonScripts = <<>> /\ k = 0

-----------------------------------------------------------------------------
(* Specification SpecParse: parse_required_files on the file texts made of *)
(* at most MaxSegs of the pieces below.                                    *)

MaxSegs == 4

ParsePieces ==
    { <<"#">>, <<" ">>, <<"\n">>, <<"user_files">>, <<":">>,
      <<"#", " ", "USER_FILES", ":", "\t">>, <<"#", "Process_Files", ":">>,
      <<"a">>, <<",">>, <<"b", " ">> }

ParseTexts == {Flatten(ps) : ps \in SeqsUpTo(ParsePieces, MaxSegs)}

InitParse ==
    /\ pc = "parse"
    /\ script_content \in ParseTexts
    /\ user_files = <<>> /\ process_files = <<>>
    /\ CodecIdle /\ MainIdle /\ LoaderIdle

ParseRequiredFiles ==
    /\ pc = "parse"
    /\ user_files' = parse_required_files(script_content)[1]
    /\ process_files' = parse_required_files(script_content)[2]
    /\ pc' = "parsed"
    /\ UNCHANGED <<script_content, codecVars, mainVars, loaderVars>>

NextParse == ParseRequiredFiles

SpecParse == InitParse /\ [][NextParse]_vars

-----------------------------------------------------------------------------
(* Claims C3 and C4: what the magic comments are said to mean, stated on   *)
(* the text itself.                                                        *)

UserWords == {"user_files", "USER_FILES", "User_Files"}
ProcessWords == {"process_files", "Process_Files"}
Blank(tok) == tok = " " \/ tok = "\t" \/ tok = "\n"

\* The positions of the colon of every marker comment: a "#", any amount of
\* whitespace, the marker word in any letter case, and the colon.
MarkerColons(text, words) ==
    { c \in 3..Len(text) :
        /\ text[c] = ":"
        /\ text[c - 1] \in words
        /\ \E h \in 1..(c - 2) :
              text[h] = "#" /\ \A g \in (h + 1)..(c - 2) : Blank(text[g]) }

FirstColon(text, words) ==
    CHOOSE c \in MarkerColons(text, words) : \A d \in MarkerColons(text, words) : c <= d

\* What follows the first marker's colon on the marker's own line.
RestOfLine(text, words) ==
    LET c == FirstColon(text, words)
        stop == CHOOSE e \in (c + 1)..(Len(text) + 1) :
                    /\ e = Len(text) + 1 \/ text[e] = "\n"
                    /\ \A g \in (c + 1)..(e - 1) : text[g] # "\n"
    IN  SubSeq(text, c + 1, stop - 1)

AllBlank(s) == \A i \in 1..Len(s) : Blank(s[i])

\* A piece with the blanks at its two ends removed.
Trimmed(s) ==
    IF AllBlank(s) THEN <<>>
    ELSE LET lo == CHOOSE i \in 1..Len(s) : ~Blank(s[i]) /\ \A h \in 1..(i - 1) : Blank(s[h])
             hi == CHOOSE i \in 1..Len(s) : ~Blank(s[i]) /\ \A h \in (i + 1)..Len(s) : Blank(s[h])
         IN  SubSeq(s, lo, hi)

\* The pieces of s between its commas, trimmed, the empty ones dropped, in order.
RECURSIVE TrimmedFields(_, _)
TrimmedFields(s, piece) ==
    IF s = <<>> THEN (IF Trimmed(piece) = <<>> THEN <<>> ELSE <<Trimmed(piece)>>)
    ELSE IF Head(s) = "," THEN
        (IF Trimmed(piece) = <<>> THEN <<>> ELSE <<Trimmed(piece)>>) \o TrimmedFields(Tail(s), <<>>)
    ELSE TrimmedFields(Tail(s), Append(piece, Head(s)))

\* C3: when the first marker comment of the text is followed by a list on its
\* own line (something other than whitespace after the colon), the list returned
\* for that marker is the rest of that line split on commas, each piece trimmed,
\* the empty pieces dropped, whatever the letter case of the marker word and the
\* whitespace around it; only the first marker comment counts.
C3_ListIsRestOfLineSplit ==
    pc = "parsed" =>
        /\ (/\ MarkerColons(script_content, UserWords) # {}
            /\ ~AllBlank(RestOfLine(script_content, UserWords)))
           => user_files = TrimmedFields(RestOfLine(script_content, UserWords), <<>>)
        /\ (/\ MarkerColons(script_content, ProcessWords) # {}
            /\ ~AllBlank(RestOfLine(script_content, ProcessWords)))
           => process_files = TrimmedFields(RestOfLine(script_content, ProcessWords), <<>>)

\* An upper-case marker with whitespace around it and around the names has
\* given the two names in order.
C3_Witness ==
    /\ pc = "parsed"
    /\ \E i \in 1..Len(script_content) : script_content[i] = "USER_FILES"
    /\ user_files = << <<"a">>, <<"b">> >>

\* C4: a marker that is absent, or whose own line holds nothing but whitespace
\* after the colon, gives the empty list, whatever the following lines hold.
C4_AbsentOrEmptyGivesEmpty ==
    pc = "parsed" =>
        /\ (\/ MarkerColons(script_content, UserWords) = {}
            \/ AllBlank(RestOfLine(script_content, UserWords)))
           => user_files = <<>>
        /\ (\/ MarkerColons(script_content, ProcessWords) = {}
            \/ AllBlank(RestOfLine(script_content, ProcessWords)))
           => process_files = <<>>

-----------------------------------------------------------------------------
(* Specification SpecCodec: a file text is encoded as collect_python_scripts *)
(* encodes it (line 48) and decoded as the embedded loader decodes it      *)
(* (line 88).                                                              *)

MaxContentLen == 3

CodecTokens == {"a", "\n", "U+007F", "U+00E9", "U+20AC", "U+1F600"}

InitCodec ==
    /\ pc = "encode"
    /\ content \in SeqsUpTo(CodecTokens, MaxContentLen)
    /\ content_b64 = <<>> /\ decoded = <<>>
    /\ ParseIdle /\ MainIdle /\ LoaderIdle

\* Line 48: content_b64 = base64.b64encode(content.encode('utf-8')).decode('ascii')
Encode ==
    /\ pc = "encode"
    /\ content_b64' = EncodeContent(content)
    /\ pc' = "encoded"
    /\ UNCHANGED <<content, decoded, parseVars, mainVars, loaderVars>>

\* Line 88: const content = atob(scriptData.content_b64);
Decode ==
    /\ pc = "encoded"
    /\ decoded' = atob(content_b64)
    /\ pc' = "decoded"
    /\ UNCHANGED <<content, content_b64, parseVars, mainVars, loaderVars>>

NextCodec == Encode \/ Decode

SpecCodec == InitCodec /\ [][NextCodec]_vars

\* C5: decoding the stored content_b64 gives back the file text, character for
\* character.
C5_RoundTrip == pc = "decoded" => decoded = Chars(content)

-----------------------------------------------------------------------------
(* Specification Spec: one run of main in a working directory of at most   *)
(* MaxFiles entries.                                                       *)

MaxFiles == 3

FileA == [name |-> <<"a", ".py">>, readable |-> TRUE,
          text |-> <<"#", " ", "user_files", ":", " ", "a", ",", "b">>]
FileB == [name |-> <<"b", ".py">>, readable |-> FALSE, text |-> <<>>]
FileSelf == [name |-> <<"embed_scripts", ".py">>, readable |-> TRUE,
             text |-> <<"#", "process_files", ":", "b">>]
FilePyc == [name |-> <<"a", ".pyc">>, readable |-> TRUE, text |-> <<"a">>]
FileC == [name |-> <<"c", ".py">>, readable |-> TRUE, text |-> <<"U+00E9", "\n">>]

DirEntries == {FileA, FileB, FileSelf, FilePyc, FileC}

\* A directory holds each name once.
Listings == {d \in SeqsUpTo(DirEntries, MaxFiles) :
                \A i, j \in 1..Len(d) : i # j => d[i] # d[j]}

DocBoth == <<FUNC, "\n", LOG, "\n", "}", "\n", START, "\n", INITCALL, "\n", CLOSE, "\n">>
DocPlain == <<"x();", "\n">>

Init ==
    /\ pc = "main"
    /\ directory \in Listings
    /\ target \in {NoFile, <<DocBoth>>, <<DocPlain>>}
    /\ idx = 0 /\ scripts = <<>> /\ opened = <<>>
    /\ output = NoFile /\ result = "running"
    /\ ParseIdle /\ CodecIdle /\ LoaderIdle

Next ==
    \/ MainCheckTarget
    \/ CollectSkipSelf
    \/ CollectRead
    \/ CollectError
    \/ MainNoScripts
    \/ MainCallCreate
    \/ CreateEmbeddedBrowserbox

Spec == Init /\ [][Next]_vars

-----------------------------------------------------------------------------
(* Claims C2 and C6, on the runs of main.                                  *)

\* C2: when the run has ended and the target document does not exist, or no
\* record was collected, no output file exists and no file was opened for
\* writing (so the target document is as it was); when the target document
\* does not exist, no file was opened at all.
C2_AbortWritesNothing ==
    (pc = "done" /\ (target = NoFile \/ scripts = <<>>)) =>
        /\ output = NoFile
        /\ \A i \in 1..Len(opened) : opened[i][2] = "r"
        /\ target = NoFile => opened = <<>>

\* A run that tried every matching file, could read none, and ended.
C2_Witness ==
    /\ pc = "done"
    /\ result = "no scripts"
    /\ Len(opened) >= 1
    /\ target # NoFile

\* A file that gives a record: it matches *.py, can be read and is not the
\* tool's own source file.
GivesRecord(e) ==
    /\ e.name[Len(e.name)] = ".py"
    /\ e.readable
    /\ e.name # <<"embed_scripts", ".py">>

Names(recs) == [i \in 1..Len(recs) |-> recs[i].name]

\* C6: once the collection loop has passed every entry, the records are, one
\* for one and in enumeration order, the files that match *.py, can be read and
\* are not the tool's own source file, each record under its file's base name.
C6_RecordsAreReadableMatches ==
    (pc \in {"collect", "create", "done"} /\ target # NoFile /\ idx = Len(Glob(directory))) =>
        Names(scripts) = Names(SelectSeq(directory, GivesRecord))

\* An unreadable file and the tool's own file came before a file that was
\* collected.
C6_Witness ==
    /\ pc = "done"
    /\ directory = <<FileB, FileSelf, FileA>>
    /\ Names(scripts) = << <<"a", ".py">> >>
    /\ result = "success"

-----------------------------------------------------------------------------
(* Specification SpecPatch: create_embedded_browserbox on the documents    *)
(* made of at most MaxDocSegs of the lines below, with each record list.   *)

MaxDocSegs == 4

BLOCK == "if (a) {"

PatchPieces ==
    { <<FUNC, "\n">>, <<SP12, LOG, "\n">>, <<BLOCK, "\n">>, <<"}", "\n">>,
      <<START, "\n", INITCALL, "\n">>, <<CLOSE, "\n">>, <<"\n">> }

PatchDocs == {Flatten(ps) : ps \in SeqsUpTo(PatchPieces, MaxDocSegs)}

RecA == ScriptInfo(<<"a", ".py">>, <<"a">>)
RecB == ScriptInfo(<<"b", ".py">>,
                   <<"#", " ", "user_files", ":", "a", ",", "b", "\n",
                     "#", "process_files", ":", "U+00E9">>)
\* A script whose magic comment names a file by the text of the init pattern.
RecInit == ScriptInfo(<<"c", ".py">>, <<"#", "user_files", ":", FUNC, " ", LOG>>)

ScriptLists == { <<>>, <<RecA, RecB>>, <<RecInit>> }

InitPatch ==
    /\ pc = "create"
    /\ target \in {NoFile} \cup {<<d>> : d \in PatchDocs}
    /\ scripts \in ScriptLists
    /\ directory = <<>> /\ idx = 0 /\ opened = <<>>
    /\ output = NoFile /\ result = "running"
    /\ ParseIdle /\ CodecIdle /\ LoaderIdle

NextPatch == CreateEmbeddedBrowserbox \/ CreateFailsToOpen

SpecPatch == InitPatch /\ [][NextPatch]_vars

-----------------------------------------------------------------------------
(* Claims C1, C7, C8 and C9, on the runs of create_embedded_browserbox.    *)

Written == pc = "done" /\ target # NoFile /\ output # NoFile

Count(tok, text) == Cardinality({i \in 1..Len(text) : text[i] = tok})

\* The places of a document where each pattern matches.
ScriptEndMatches(text) == {p \in 1..Len(text) : ScriptEndAt(text, p) # 0}
InitMatches(text) == {p \in 1..Len(text) : InitAt(text, p) # 0}

\* The lines of a text: what stands between two newlines.
Lines(text) ==
    { SubSeq(text, a, LineEnd(text, a) - 1) :
        a \in {1} \cup {i + 1 : i \in {h \in 1..Len(text) : text[h] = "\n"}} }

\* C1: a document with each anchor exactly once, patched with a non-empty
\* record list, holds one data declaration, one loader body and one loader
\* call, and every line of the document is a line of the output.  (Stated here
\* for the record lists none of whose strings spells the init pattern.)
C1_OneOfEachAndLinesKept ==
    (/\ Written
     /\ scripts # <<>>
     /\ Count(FUNC, scripts_js(scripts)) = 0
     /\ Cardinality(ScriptEndMatches(target[1])) = 1
     /\ Cardinality(InitMatches(target[1])) = 1) =>
        /\ Count(DECLHEAD, output[1]) = 1
        /\ Count(LOADER, output[1]) = 1
        /\ Count(CALL, output[1]) = 1
        /\ Lines(target[1]) \subseteq Lines(output[1])

\* C7: the run succeeds, and when one anchor is missing from the document the
\* output is what the other insertion alone makes of the document.
C7_InsertionsIndependent ==
    Written =>
        /\ result = "success"
        /\ ScriptEndMatches(target[1]) = {} => output[1] = SubInit(target[1], 1)
        /\ InitMatches(target[1]) = {} => output[1] = SubScriptEnd(target[1], 1, scripts)

\* The positions of a text kept when `gone` are deleted.
Keep(text, gone) ==
    LET kept == SelectSeq([i \in 1..Len(text) |-> i], LAMBDA i : i \notin gone)
    IN  [n \in 1..Len(kept) |-> text[kept[n]]]

\* A text without the loader calls inserted into it: each call and the
\* newline and indentation that follow it.
WithoutCalls(text) ==
    Keep(text, UNION {{i, i + 1, i + 2} : i \in {h \in 1..Len(text) : text[h] = CALL}})

\* A text without the data-and-loader blocks inserted into it: from each
\* heading comment to the indentation that follows the loader's two newlines.
WithoutBlocks(text) ==
    Keep(text, UNION {h..((CHOOSE q \in h..Len(text) :
                              text[q] = LOADER /\ \A r \in h..(q - 1) : text[r] # LOADER) + 3) :
                      h \in {g \in 1..Len(text) : text[g] = EMBHDR}})

\* C8: the output is the document with text inserted and nothing else: with
\* the inserted calls and blocks deleted it is the document again, and with no
\* anchor in the document it is the document.
C8_InsertOnly ==
    Written =>
        /\ WithoutBlocks(WithoutCalls(output[1])) = target[1]
        /\ (ScriptEndMatches(target[1]) = {} /\ InitMatches(target[1]) = {})
           => output[1] = target[1]

\* A document with the trailing anchor twice and the init anchor once has
\* been patched.
C8_Witness ==
    /\ Written
    /\ Cardinality(ScriptEndMatches(target[1])) = 2
    /\ Count(EMBHDR, output[1]) = 2
    /\ scripts = <<RecA, RecB>>

\* The initialization routine of a text: from the first "function init() {"
\* to the brace that closes it (nested blocks counted), or to the end.
IsOpen(tok) == tok \in {FUNC, BLOCK, "{"}
InitStart(text) == CHOOSE f \in 1..Len(text) : text[f] = FUNC /\ \A h \in 1..(f - 1) : text[h] # FUNC
Depth(text, f, i) ==
    Cardinality({p \in f..i : IsOpen(text[p])}) - Cardinality({p \in f..i : text[p] = "}"})
InitStop(text) ==
    LET f == InitStart(text)
    IN  CHOOSE e \in (f + 1)..(Len(text) + 1) :
            /\ e = Len(text) + 1 \/ Depth(text, f, e) = 0
            /\ \A h \in (f + 1)..(e - 1) : Depth(text, f, h) # 0
RoutineLogs(text) == {j \in (InitStart(text) + 1)..(InitStop(text) - 1) : text[j] = LOG}
FinalLog(text) == CHOOSE j \in RoutineLogs(text) : \A h \in RoutineLogs(text) : h <= j

\* C9: when the initialization routine of the document (the only one) holds
\* the log statement, whatever comes before it in the body, the routine of the
\* output holds the loader call immediately before its final log statement.
C9_CallBeforeFinalLog ==
    (/\ Written
     /\ Count(FUNC, target[1]) = 1
     /\ RoutineLogs(target[1]) # {}) =>
        LET q == FinalLog(output[1])
        IN  q > 3 /\ SubSeq(output[1], q - 3, q - 1) = <<CALL, "\n", SP12>>

-----------------------------------------------------------------------------
(* Specification SpecLoader: loadEmbeddedScripts on the record lists of at *)
(* most MaxEmbedded records, in a host document with or without a script   *)
(* registered beforehand.  One of the records has a content that is not    *)
(* base64 and one a content without padding and with a line end, as a list *)
(* edited by hand can hold.                                                *)

MaxEmbedded == 3

EmbA1 == ScriptInfo(<<"a", ".py">>, <<"#", "user_files", ":", "a">>)
EmbA2 == ScriptInfo(<<"a", ".py">>, <<"#", "process_files", ":", "b">>)
EmbB == ScriptInfo(<<"b", ".py">>, <<"b">>)
EmbBad == [name |-> <<"a", ".py">>, content_b64 |-> <<"*">>,
           userFiles |-> <<>>, processFiles |-> <<>>]
EmbLoose == [name |-> <<"b", ".py">>, content_b64 |-> <<"Y", "W", "I", "\n">>,
             userFiles |-> <<>>, processFiles |-> <<>>]

\* A script the user dropped into the host document before the loader ran.
HostScript == [name |-> <<"b", ".py">>, content |-> <<104, 111, 115, 116>>,
               userFiles |-> <<>>, processFiles |-> <<>>, id |-> ScriptId(<<"b", ".py">>)]

InitLoader ==
    /\ pc = "load"
    /\ embeddedScripts \in SeqsUpTo({EmbA1, EmbA2, EmbB, EmbBad, EmbLoose}, MaxEmbedded)
    /\ pythonScripts \in {<<>>, <<HostScript>>}
    /\ k = 0
    /\ ParseIdle /\ CodecIdle /\ MainIdle

NextLoader ==
    \/ LoaderReturnEarly
    \/ LoaderBegin
    \/ ForEachAdd
    \/ ForEachSkip
    \/ ForEachError
    \/ LoaderFinish

SpecLoader == InitLoader /\ [][NextLoader]_vars

\* The records of the list under a name, those of them whose content decodes,
\* and the entries of the active list under the name.
RecordsNamed(n) == {i \in 1..Len(embeddedScripts) : embeddedScripts[i].name = n}
Decodable(n) == {i \in RecordsNamed(n) : ~AtobThrows(embeddedScripts[i].content_b64)}
EntriesNamed(n) == {i \in 1..Len(pythonScripts) : pythonScripts[i].name = n}
ListedNames == {embeddedScripts[i].name : i \in 1..Len(embeddedScripts)}

\* A script of the name was registered before the loader ran: the host
\* document's own entry, which the loader never replaces.
HostHas(n) == HostScript.name = n /\ \E e \in EntriesNamed(n) : pythonScripts[e] = HostScript

Carries(entry, rec) ==
    /\ entry.content = atob(rec.content_b64)
    /\ entry.userFiles = rec.userFiles
    /\ entry.processFiles = rec.processFiles

\* C10 as stated: once the loader has passed the whole list, every name the
\* list holds more than once has exactly one entry in the active list, and that
\* entry carries the content and the input lists of the LAST record of that name
\* (left aside: a script registered before the loader ran, and records whose
\* content does not decode).
C10_LaterRecordShadows ==
    pc = "loaded" =>
        \A n \in ListedNames :
            (Cardinality(RecordsNamed(n)) >= 2 /\ ~HostHas(n) /\ Decodable(n) # {}) =>
                /\ Cardinality(EntriesNamed(n)) = 1
                /\ \A e \in EntriesNamed(n), i \in Decodable(n) :
                      (\A j \in Decodable(n) : j <= i)
                      => Carries(pythonScripts[e], embeddedScripts[i])

\* C10 as amended: the entry carries the content and the input lists of the
\* FIRST record of that name whose content decodes; a script registered before
\* the loader ran stays as it was and is the only entry of its name; and a name
\* none of whose records decodes, and which was not registered, has no entry.
C10_EarlierRecordWins ==
    pc = "loaded" =>
        \A n \in ListedNames :
            Cardinality(RecordsNamed(n)) >= 2 =>
                IF HostHas(n) THEN
                    /\ Cardinality(EntriesNamed(n)) = 1
                    /\ \A e \in EntriesNamed(n) : pythonScripts[e] = HostScript
                ELSE IF Decodable(n) = {} THEN EntriesNamed(n) = {}
                ELSE
                    /\ Cardinality(EntriesNamed(n)) = 1
                    /\ \A e \in EntriesNamed(n), i \in Decodable(n) :
                          (\A j \in Decodable(n) : i <= j)
                          => /\ Carries(pythonScripts[e], embeddedScripts[i])
                             /\ pythonScripts[e].id = ScriptId(n)

\* Two records named a.py with different contents, a record between them,
\* nothing registered beforehand: two entries, a.py with the first content.
C10_Witness ==
    /\ pc = "loaded"
    /\ embeddedScripts = <<EmbA1, EmbB, EmbA2>>
    /\ Len(pythonScripts) = 2
    /\ pythonScripts[1].content = atob(EmbA1.content_b64)

=============================================================================
